---- MODULE Spec2Model ----
(***************************************************************************)
(* A model of ruy's CpuInfo (the cache-size and CPU-feature oracle built   *)
(* on the cpuinfo library) and of ruy's Path bit sets.                     *)
(*                                                                         *)
(* The oracle is modelled at the granularity of its loads and stores of    *)
(* the members init_status_ and cache_sizes_, one frame per calling        *)
(* thread, so that the same actions describe a single caller and several   *)
(* callers racing on one instance.  RUY_DCHECK_* is compiled out in        *)
(* release builds: a failing check is recorded in dcheck_failed and        *)
(* execution continues as the release build does.                          *)
(***************************************************************************)
EXTENDS Integers, Sequences, FiniteSets, TLC

\* ---------------------------------------------------------------- bounds
MaxThreads == 2
MaxProcs == 2
MaxCalls == 3

\* ------------------------------------------------------ program constants
IntMax == 2147483647
KiB == 1024
PathWidth == 8

Threads == 1..MaxThreads

Ops == {"EnsureInitialized", "GetCacheSizes", "NeonDotprod", "Sse42",
        "Avx2", "Avx512", "AvxVnni"}

FeatureOps == Ops \ {"EnsureInitialized", "GetCacheSizes"}

VARIABLES
  have_cpuinfo,        \* RUY_HAVE_CPUINFO of this build
  cpuinfo_ok,          \* what cpuinfo_initialize() answers
  processors,          \* cpuinfo_get_processor(i), i in 0..processors_count-1
  features,            \* cpuinfo_has_*() answers
  init_status_,        \* CpuInfo::init_status_
  cache_sizes_,        \* CpuInfo::cache_sizes_
  alive,               \* FALSE once ~CpuInfo() has run
  frame,               \* per thread: the call in progress and its locals
  callers,             \* threads that call into this instance
  ops,                 \* operations the callers use
  calls_left,          \* calls the callers may still start
  initialize_calls,    \* number of cpuinfo_initialize() invocations
  deinitialize_calls,  \* number of cpuinfo_deinitialize() invocations
  status_stores,       \* number of stores to init_status_ (line 35)
  dcheck_failed,       \* set of RUY_DCHECKs that have failed
  provider_queries,    \* cpuinfo functions called so far, initialize apart
  first_ret,           \* per op: <<>> or <<result of its first completed call>>
  last_ret,            \* per op: <<>> or <<result of its latest completed call>>
  path_mask,           \* argument of GetMostSignificantPath, left operand
  path_q,              \* right operand of the binary Path operators
  path_op,             \* "none" or the Path function that was applied
  path_result,         \* <<>> or the values the applied function returned
  platform             \* the build: __linux__ and the RUY_PLATFORM(...) values

vars == <<have_cpuinfo, cpuinfo_ok, processors, features, init_status_,
          cache_sizes_, alive, frame, callers, ops, calls_left,
          initialize_calls, deinitialize_calls, status_stores, dcheck_failed,
          provider_queries, first_ret, last_ret, path_mask, path_q, path_op,
          path_result, platform>>

providerVars == <<have_cpuinfo, cpuinfo_ok, processors, features>>
workloadVars == <<callers, ops>>
pathVars == <<path_mask, path_q, path_op, path_result, platform>>

\* ------------------------------------------------------------ CpuCacheSizes
\* struct CpuCacheSizes { int local = 0; int last_level = 0; }
CpuCacheSizes(l, ll) == [local |-> l, last_level |-> ll]

DefaultCacheSizes == CpuCacheSizes(0, 0)

\* CpuInfo::GetDummyCacheSizes
GetDummyCacheSizes == CpuCacheSizes(32 * KiB, 512 * KiB)

\* ------------------------------------------------------- cpuinfo topology
\* A null cpuinfo_cache pointer.
NullCache == [size |-> 0, processor_start |-> 0, processor_count |-> 0]

cpuinfo_cache(sz, start, count) ==
  [size |-> sz, processor_start |-> start, processor_count |-> count]

processors_count == Cardinality(DOMAIN processors)

cpuinfo_get_processor(i) == processors[i]

\* {processor->cache.l1d, processor->cache.l2, processor->cache.l3}
CacheLevels(processor) == <<processor.l1d, processor.l2, processor.l3>>

\* A classification that takes only a cache of one processor for local.
is_local_single(cache) == cache.processor_count = 1

\* lines 62-66: the cache's first and last processor are on the same core
is_local(cache) ==
  cpuinfo_get_processor(cache.processor_start).core =
    cpuinfo_get_processor(cache.processor_start + cache.processor_count - 1).core

\* A walk that stops at the first absent level.
RECURSIVE WalkCaches_break(_, _, _)
WalkCaches_break(levels, k, sizes) ==
  IF k > Len(levels) THEN sizes
  ELSE LET cache == levels[k] IN
       IF cache = NullCache THEN sizes
       ELSE WalkCaches_break(levels, k + 1,
                             <<IF is_local(cache) THEN cache.size ELSE sizes[1],
                               cache.size>>)

\* A walk that keeps the innermost present cache as the last level.
RECURSIVE WalkCaches_innermost(_, _, _)
WalkCaches_innermost(levels, k, sizes) ==
  IF k > Len(levels) THEN sizes
  ELSE LET cache == levels[k] IN
       IF cache = NullCache THEN WalkCaches_innermost(levels, k + 1, sizes)
       ELSE WalkCaches_innermost(levels, k + 1,
              <<IF is_local(cache) THEN cache.size ELSE sizes[1],
                IF sizes[2] = 0 THEN cache.size ELSE sizes[2]>>)

\* lines 56-71: the walk over one processor's cache levels, from level k on;
\* sizes is <<local_cache_size, last_level_cache_size>>.
RECURSIVE WalkCaches(_, _, _)
WalkCaches(levels, k, sizes) ==
  IF k > Len(levels) THEN sizes
  ELSE LET cache == levels[k] IN
       IF cache = NullCache THEN WalkCaches(levels, k + 1, sizes)
       ELSE WalkCaches(levels, k + 1,
                       <<IF is_local(cache) THEN cache.size ELSE sizes[1],
                         cache.size>>)

\* No fallback: a processor without a local cache keeps local size 0.
LocalOrLastLevel_never(local_cache_size, last_level_cache_size) ==
  local_cache_size

\* lines 72-75: if no local cache was found, use the last-level cache
LocalOrLastLevel(local_cache_size, last_level_cache_size) ==
  IF local_cache_size = 0 THEN last_level_cache_size ELSE local_cache_size

\* lines 51-75: <<local_cache_size, last_level_cache_size>> of processor i
ProcessorCacheSizes(i) ==
  LET walked == WalkCaches(CacheLevels(cpuinfo_get_processor(i)), 1, <<0, 0>>)
  IN <<LocalOrLastLevel(walked[1], walked[2]), walked[2]>>

\* An aggregate that keeps the value of the processor seen last.
Min_last(a, b) == b

\* std::min
Min(a, b) == IF b < a THEN b ELSE a

\* lines 76-78: the three RUY_DCHECKs of one loop iteration that fail
FailedSizeChecks(local_cache_size, last_level_cache_size) ==
  (IF local_cache_size > 0 THEN {} ELSE {"local_gt_0"}) \cup
  (IF last_level_cache_size > 0 THEN {} ELSE {"last_level_gt_0"}) \cup
  (IF last_level_cache_size >= local_cache_size THEN {}
   ELSE {"last_level_ge_local"})

\* ------------------------------------------------------- cpuinfo features
FeatureNames == {"neon_dot", "sse4_2", "avx2", "avx512f", "avx512dq",
                 "avx512cd", "avx512bw", "avx512vl", "avx512vnni"}

\* A conjunction that leaves out cpuinfo_has_x86_avx512vl().
Avx512Flags_without_vl(f) ==
  f["avx512f"] /\ f["avx512dq"] /\ f["avx512cd"] /\ f["avx512bw"]

\* lines 100-102: the five cpuinfo_has_x86_avx512*() calls of Avx512()
Avx512Flags(f) ==
  f["avx512f"] /\ f["avx512dq"] /\ f["avx512cd"] /\ f["avx512bw"] /\
  f["avx512vl"]

\* lines 89-107: the provider part of each feature query
FeatureQuery(o, f) ==
  CASE o = "NeonDotprod" -> f["neon_dot"]
    [] o = "Sse42" -> f["sse4_2"]
    [] o = "Avx2" -> f["avx2"]
    [] o = "Avx512" -> Avx512Flags(f)
    [] o = "AvxVnni" -> f["avx512vnni"]

\* lines 89-107: the cpuinfo_has_*() functions each feature query names, in
\* the order its && chain evaluates them
FeatureFlags(o) ==
  CASE o = "NeonDotprod" -> <<"neon_dot">>
    [] o = "Sse42" -> <<"sse4_2">>
    [] o = "Avx2" -> <<"avx2">>
    [] o = "Avx512" -> <<"avx512f", "avx512dq", "avx512cd", "avx512bw",
                         "avx512vl">>
    [] o = "AvxVnni" -> <<"avx512vnni">>
    [] OTHER -> <<>>

\* && evaluates its right operand only if the left one is true: a function
\* of the chain is called when every function before it answered true.
InvokedFlags(o, f) ==
  {FeatureFlags(o)[k] : k \in {i \in 1..Len(FeatureFlags(o)) :
                                 \A j \in 1..(i - 1) : f[FeatureFlags(o)[j]]}}

\* A query that asks cpuinfo whatever EnsureInitialized() answered.
FeatureCalls_eager(ensured, o, f) == InvokedFlags(o, f)

\* lines 89-107: `EnsureInitialized() && cpuinfo_has_*()` calls into cpuinfo
\* only if EnsureInitialized() returned true.
FeatureCalls(ensured, o, f) == IF ensured THEN InvokedFlags(o, f) ELSE {}

\* lines 43-47: cpuinfo_get_processors_count() is called only past the early
\* return for a failed cpuinfo_initialize().
InitializeQueries(initialized) ==
  IF initialized THEN {"processors_count"} ELSE {}

\* ------------------------------------------------------- CpuInfo, threads
\* A guard that lets a failed initialization be attempted again.
NeedsInitialize_retry(status) == status # "kInitialized"

\* line 34: EnsureInitialized() runs DoInitialize() for this status
NeedsInitialize(status) == status = "kNotYetAttempted"

\* A test that takes any attempted initialization for a successful one.
IsInitialized_attempted(status) == status # "kNotYetAttempted"

\* line 38: the value EnsureInitialized() returns for this status
IsInitialized(status) == status = "kInitialized"

\* A return that tests the status loaded before DoInitialize() ran.
StatusAtReturn_stale(loaded, current) == loaded

\* line 38 loads init_status_ again: the status tested there is the member's
\* current value, not the one line 34 loaded.
StatusAtReturn(loaded, current) == current

\* A DoInitialize() that does not record a failed cpuinfo_initialize().
InitStatusFor_unrecorded(initialized) ==
  IF initialized THEN "kInitialized" ELSE "kNotYetAttempted"

\* lines 43-45 and 86: the status DoInitialize() returns
InitStatusFor(initialized) == IF initialized THEN "kInitialized" ELSE "kFailed"

\* What a call gives back: the boolean it returns, and *result of
\* GetCacheSizes (the caller's default-constructed struct otherwise).
CallResult(b, sizes) == [b |-> b, sizes |-> sizes]

IdleFrame ==
  [pc |-> "idle", op |-> "EnsureInitialized", loaded |-> "kNotYetAttempted",
   ret |-> "kNotYetAttempted", pending |-> {},
   i |-> 0, local_cache_size |-> 0, last_level_cache_size |-> 0,
   overall_local_cache_size |-> IntMax,
   overall_last_level_cache_size |-> IntMax,
   result |-> CallResult(FALSE, DefaultCacheSizes)]

Quiescent == \A t \in Threads : frame[t].pc \in {"idle", "done"}

\* A call of thread t returns res: the frame is done, the result is logged.
Complete(t, res) ==
  /\ frame' = [frame EXCEPT ![t].pc = "done", ![t].result = res]
  /\ first_ret' = [first_ret EXCEPT ![frame[t].op] =
                     IF @ = <<>> THEN <<res>> ELSE @]
  /\ last_ret' = [last_ret EXCEPT ![frame[t].op] = <<res>>]

\* A caller enters one of the seven public methods (RUY_HAVE_CPUINFO build).
Call(t, o) ==
  /\ alive /\ have_cpuinfo /\ calls_left > 0
  /\ frame[t].pc \in {"idle", "done"}
  /\ frame' = [frame EXCEPT ![t] = [IdleFrame EXCEPT !.pc = "ensure", !.op = o]]
  /\ calls_left' = calls_left - 1
  /\ UNCHANGED <<providerVars, workloadVars, provider_queries, pathVars, init_status_,
                 cache_sizes_, alive, initialize_calls, deinitialize_calls,
                 status_stores, dcheck_failed, first_ret, last_ret>>

\* lines 121-132: the build without cpuinfo; each method is one return.
FallbackResult(o) ==
  IF o = "GetCacheSizes" THEN CallResult(FALSE, GetDummyCacheSizes)
  ELSE CallResult(FALSE, DefaultCacheSizes)

FallbackCall(t, o) ==
  /\ alive /\ ~have_cpuinfo /\ calls_left > 0
  /\ frame[t].pc \in {"idle", "done"}
  /\ frame' = [frame EXCEPT ![t] =
                 [IdleFrame EXCEPT !.pc = "done", !.op = o,
                                   !.result = FallbackResult(o)]]
  /\ first_ret' = [first_ret EXCEPT ![o] =
                     IF @ = <<>> THEN <<FallbackResult(o)>> ELSE @]
  /\ last_ret' = [last_ret EXCEPT ![o] = <<FallbackResult(o)>>]
  /\ calls_left' = calls_left - 1
  /\ UNCHANGED <<providerVars, workloadVars, provider_queries, pathVars, init_status_,
                 cache_sizes_, alive, initialize_calls, deinitialize_calls,
                 status_stores, dcheck_failed>>

\* line 34: EnsureInitialized() loads init_status_
EnsureInitialized(t) ==
  /\ frame[t].pc = "ensure"
  /\ frame' = [frame EXCEPT
                 ![t].loaded = init_status_,
                 ![t].pc = IF NeedsInitialize(init_status_) THEN "initialize"
                           ELSE "return"]
  /\ UNCHANGED <<providerVars, workloadVars, provider_queries, pathVars, init_status_,
                 cache_sizes_, alive, calls_left, initialize_calls,
                 deinitialize_calls, status_stores, dcheck_failed, first_ret,
                 last_ret>>

\* The stores to members that follow the loop, in program order: line 84,
\* line 85, and line 35 in the caller.
StoreOrder == <<"local", "last_level", "status">>

\* An aggregation that never assigns cache_sizes_.last_level.
StoresOf_without_last_level(initialized) ==
  IF initialized THEN {"local", "status"} ELSE {"status"}

\* lines 43-45 and 84-86: the stores a DoInitialize() call leads to
StoresOf(initialized) ==
  IF initialized THEN {"local", "last_level", "status"} ELSE {"status"}

\* The members are plain, unsynchronized objects.  While one thread calls
\* the instance its stores take effect in program order; when several
\* threads call it the accesses race, and the compiler and the processor
\* may make the stores of one thread visible to another in any order.
Racing == Cardinality(callers) > 1

\* Thread t may now perform its store to member m.
CanStore(t, m) ==
  /\ \/ frame[t].pc = "store"
     \/ frame[t].pc = "loop" /\ ~(frame[t].i < processors_count)
  /\ m \in frame[t].pending
  /\ \/ Racing
     \/ \A k \in 1..Len(StoreOrder) :
          StoreOrder[k] \in frame[t].pending =>
            \E j \in 1..k : StoreOrder[j] = m

\* The frame of t after its store to m: the call goes on to line 38 once
\* every store is done.
Stored(t, m) ==
  [frame EXCEPT ![t].pending = @ \ {m},
                ![t].pc = IF frame[t].pending = {m} THEN "return" ELSE "store"]

\* lines 42-49: DoInitialize() up to the loop over the processors
DoInitialize(t) ==
  /\ frame[t].pc = "initialize"
  /\ initialize_calls' = initialize_calls + 1
  /\ dcheck_failed' = dcheck_failed \cup
       (IF init_status_ = "kNotYetAttempted" THEN {} ELSE {"not_yet_attempted"})
       \cup (IF cpuinfo_ok /\ ~(processors_count > 0)
             THEN {"processors_count_gt_0"} ELSE {})
  /\ frame' = [frame EXCEPT
                 ![t].pc = IF cpuinfo_ok THEN "loop" ELSE "store",
                 ![t].ret = InitStatusFor(cpuinfo_ok),
                 ![t].pending = StoresOf(cpuinfo_ok),
                 ![t].i = 0,
                 ![t].overall_local_cache_size = IntMax,
                 ![t].overall_last_level_cache_size = IntMax]
  /\ provider_queries' = provider_queries \cup InitializeQueries(cpuinfo_ok)
  /\ UNCHANGED <<providerVars, workloadVars, pathVars, init_status_,
                 cache_sizes_, alive, calls_left, deinitialize_calls,
                 status_stores, first_ret, last_ret>>

\* lines 50-83: one iteration of the loop over the processors
ProcessorLoop(t) ==
  /\ frame[t].pc = "loop"
  /\ frame[t].i < processors_count
  /\ LET sizes == ProcessorCacheSizes(frame[t].i) IN
       /\ dcheck_failed' = dcheck_failed \cup FailedSizeChecks(sizes[1], sizes[2])
       /\ frame' = [frame EXCEPT
            ![t].i = @ + 1,
            ![t].local_cache_size = sizes[1],
            ![t].last_level_cache_size = sizes[2],
            ![t].overall_local_cache_size = Min(@, sizes[1]),
            ![t].overall_last_level_cache_size = Min(@, sizes[2])]
  /\ provider_queries' = provider_queries \cup {"processor"}
  /\ UNCHANGED <<providerVars, workloadVars, pathVars, init_status_,
                 cache_sizes_, alive, calls_left, initialize_calls,
                 deinitialize_calls, status_stores, first_ret, last_ret>>

\* line 84: cache_sizes_.local = overall_local_cache_size
StoreLocal(t) ==
  /\ CanStore(t, "local")
  /\ cache_sizes_' = [cache_sizes_ EXCEPT
                        !.local = frame[t].overall_local_cache_size]
  /\ frame' = Stored(t, "local")
  /\ UNCHANGED <<providerVars, workloadVars, provider_queries, pathVars, init_status_, alive,
                 calls_left, initialize_calls, deinitialize_calls,
                 status_stores, dcheck_failed, first_ret, last_ret>>

\* line 85: cache_sizes_.last_level = overall_last_level_cache_size
StoreLastLevel(t) ==
  /\ CanStore(t, "last_level")
  /\ cache_sizes_' = [cache_sizes_ EXCEPT
                        !.last_level = frame[t].overall_last_level_cache_size]
  /\ frame' = Stored(t, "last_level")
  /\ UNCHANGED <<providerVars, workloadVars, provider_queries, pathVars, init_status_, alive,
                 calls_left, initialize_calls, deinitialize_calls,
                 status_stores, dcheck_failed, first_ret, last_ret>>

\* lines 35-36: init_status_ = DoInitialize()
StoreStatus(t) ==
  /\ CanStore(t, "status")
  /\ init_status_' = frame[t].ret
  /\ status_stores' = status_stores + 1
  /\ dcheck_failed' = dcheck_failed \cup
       (IF frame[t].ret = "kNotYetAttempted" THEN {"attempted"} ELSE {})
  /\ frame' = Stored(t, "status")
  /\ UNCHANGED <<providerVars, workloadVars, provider_queries, pathVars, cache_sizes_, alive,
                 calls_left, initialize_calls, deinitialize_calls, first_ret,
                 last_ret>>

\* line 38, then the rest of the public method up to its return or, for a
\* successful GetCacheSizes, up to the copy of cache_sizes_ (line 114).
Return(t) ==
  /\ frame[t].pc = "return"
  /\ LET ensured == IsInitialized(StatusAtReturn(frame[t].loaded, init_status_))
         o == frame[t].op
     IN /\ IF o = "GetCacheSizes" /\ ensured
           THEN /\ frame' = [frame EXCEPT ![t].pc = "copy_local"]
                /\ UNCHANGED <<first_ret, last_ret>>
           ELSE Complete(t,
                  IF o = "EnsureInitialized"
                    THEN CallResult(ensured, DefaultCacheSizes)
                  ELSE IF o = "GetCacheSizes"
                    THEN CallResult(FALSE, GetDummyCacheSizes)
                  ELSE CallResult(ensured /\ FeatureQuery(o, features),
                                  DefaultCacheSizes))
        /\ provider_queries' =
             provider_queries \cup FeatureCalls(ensured, o, features)
  /\ UNCHANGED <<providerVars, workloadVars, pathVars, init_status_,
                 cache_sizes_, alive, calls_left, initialize_calls,
                 deinitialize_calls, status_stores, dcheck_failed>>

\* line 114, first member: result->local = cache_sizes_.local
CopyLocal(t) ==
  /\ frame[t].pc = "copy_local"
  /\ frame' = [frame EXCEPT ![t].pc = "copy_last_level",
                            ![t].result.sizes.local = cache_sizes_.local]
  /\ UNCHANGED <<providerVars, workloadVars, provider_queries, pathVars, init_status_,
                 cache_sizes_, alive, calls_left, initialize_calls,
                 deinitialize_calls, status_stores, dcheck_failed, first_ret,
                 last_ret>>

\* line 114, second member: result->last_level = cache_sizes_.last_level
CopyLastLevel(t) ==
  /\ frame[t].pc = "copy_last_level"
  /\ Complete(t, CallResult(FALSE,
                   CpuCacheSizes(frame[t].result.sizes.local,
                                 cache_sizes_.last_level)))
  /\ UNCHANGED <<providerVars, workloadVars, provider_queries, pathVars, init_status_,
                 cache_sizes_, alive, calls_left, initialize_calls,
                 deinitialize_calls, status_stores, dcheck_failed>>

\* A destructor that deinitializes after any attempt, failed or not.
NeedsDeinitialize_attempted(status) == status # "kNotYetAttempted"

\* line 28: the destructor calls cpuinfo_deinitialize() for this status
NeedsDeinitialize(status) == status = "kInitialized"

\* lines 27-31 and 122: CpuInfo::~CpuInfo()
Destroy ==
  /\ alive /\ Quiescent
  /\ alive' = FALSE
  /\ deinitialize_calls' =
       IF have_cpuinfo /\ NeedsDeinitialize(init_status_)
       THEN deinitialize_calls + 1 ELSE deinitialize_calls
  /\ UNCHANGED <<providerVars, workloadVars, provider_queries, pathVars, init_status_,
                 cache_sizes_, frame, calls_left, initialize_calls,
                 status_stores, dcheck_failed, first_ret, last_ret>>

Next ==
  \/ \E t \in callers, o \in ops : Call(t, o)
  \/ \E t \in callers, o \in ops : FallbackCall(t, o)
  \/ \E t \in callers : EnsureInitialized(t)
  \/ \E t \in callers : DoInitialize(t)
  \/ \E t \in callers : ProcessorLoop(t)
  \/ \E t \in callers : StoreLocal(t)
  \/ \E t \in callers : StoreLastLevel(t)
  \/ \E t \in callers : StoreStatus(t)
  \/ \E t \in callers : Return(t)
  \/ \E t \in callers : CopyLocal(t)
  \/ \E t \in callers : CopyLastLevel(t)
  \/ Destroy

\* ------------------------------------------------------------------ Path
\* enum class Path : std::uint8_t
PathValues == 0..(2 ^ PathWidth - 1)

kNone == 0
kReference == 1
kStandardCpp == 2

\* ruy/size_util.h, round_down_pot: the largest power of two that is at
\* most n, and 0 for 0.
RECURSIVE round_down_pot(_)
round_down_pot(n) == IF n <= 1 THEN n ELSE 2 * round_down_pot(n \div 2)

\* A selection that rounds the mask up to a power of two instead of down.
GetMostSignificantPath_round_up(mask) ==
  (IF round_down_pot(mask) = mask THEN mask ELSE 2 * round_down_pot(mask))
    % (2 ^ PathWidth)

\* A selection computed as 1 << floor_log2(mask), which is 1 for no Path.
GetMostSignificantPath_shift(mask) ==
  (IF mask <= 1 THEN 1 ELSE round_down_pot(mask)) % (2 ^ PathWidth)

\* static_cast<Path>(round_down_pot(static_cast<int>(path_mask)))
GetMostSignificantPath(mask) == round_down_pot(mask) % (2 ^ PathWidth)

CallGetMostSignificantPath ==
  /\ path_result = <<>>
  /\ path_result' = <<GetMostSignificantPath(path_mask)>>
  /\ path_op' = "GetMostSignificantPath"
  /\ UNCHANGED <<providerVars, workloadVars, provider_queries, path_mask, path_q, platform,
                 init_status_,
                 cache_sizes_, alive, frame, calls_left, initialize_calls,
                 deinitialize_calls, status_stores, dcheck_failed, first_ret,
                 last_ret>>

NextPath == CallGetMostSignificantPath

\* std::uint32_t, the type the operators compute in
UInt32Width == 32

\* static_cast<std::uint32_t>(p): the bits of the 8-bit Path, zero-extended
ToUInt32(p) ==
  [k \in 0..(UInt32Width - 1) |-> k < PathWidth /\ (p \div (2 ^ k)) % 2 = 1]

\* static_cast<Path>(bits): the low eight bits of the 32-bit value
RECURSIVE LowBits(_, _)
LowBits(bits, k) ==
  IF k = PathWidth THEN 0
  ELSE (IF bits[k] THEN 2 ^ k ELSE 0) + LowBits(bits, k + 1)

ToPath(bits) == LowBits(bits, 0)

\* lines 112-115: operator|
operator_or(p, q) ==
  ToPath([k \in 0..(UInt32Width - 1) |-> ToUInt32(p)[k] \/ ToUInt32(q)[k]])

\* An intersection that was written as a copy of operator|.
operator_and_as_or(p, q) == operator_or(p, q)

\* lines 117-120: operator&
operator_and(p, q) ==
  ToPath([k \in 0..(UInt32Width - 1) |-> ToUInt32(p)[k] /\ ToUInt32(q)[k]])

\* lines 122-125: operator^
operator_xor(p, q) ==
  ToPath([k \in 0..(UInt32Width - 1) |-> ToUInt32(p)[k] # ToUInt32(q)[k]])

\* lines 127-129: operator~
operator_not(p) ==
  ToPath([k \in 0..(UInt32Width - 1) |-> ~ToUInt32(p)[k]])

\* One of the four operators is applied to the operands.
ApplyOperator(name, value) ==
  /\ path_op = "none"
  /\ path_op' = name
  /\ path_result' = value
  /\ UNCHANGED <<providerVars, workloadVars, provider_queries, path_mask, path_q, platform,
                 init_status_,
                 cache_sizes_, alive, frame, calls_left, initialize_calls,
                 deinitialize_calls, status_stores, dcheck_failed, first_ret,
                 last_ret>>

CallOr == ApplyOperator("operator|", <<operator_or(path_mask, path_q)>>)

CallAnd == ApplyOperator("operator&", <<operator_and(path_mask, path_q)>>)

CallXor == ApplyOperator("operator^", <<operator_xor(path_mask, path_q)>>)

CallNot == ApplyOperator("operator~", <<operator_not(path_mask)>>)

\* The expressions (p | q) & ~p, q & ~p and p & ~p are evaluated.
CallDifference ==
  ApplyOperator("difference",
    <<operator_and(operator_or(path_mask, path_q), operator_not(path_mask)),
      operator_and(path_q, operator_not(path_mask)),
      operator_and(path_mask, operator_not(path_mask))>>)

NextPathOperators ==
  \/ CallOr
  \/ CallAnd
  \/ CallXor
  \/ CallNot
  \/ CallDifference

\* ------------------------------------------------------------- kAllPaths
\* The macros the Path header tests: __linux__ and RUY_PLATFORM(X) for X in
\* ARM, X86, NEON, NEON_64 and NEON_32.
PlatformMacros == {"linux", "ARM", "X86", "NEON", "NEON_64", "NEON_32"}

\* lines 61-110: the enumerators of Path that the build defines
PathEnum(pf) ==
  [n \in {"kNone", "kReference", "kStandardCpp"}
          \cup (IF pf["ARM"] THEN {"kNeon", "kNeonDotprod"} ELSE {})
          \cup (IF pf["X86"] THEN {"kSse42", "kAvx2", "kAvx512", "kAvxVnni"}
                ELSE {}) |->
     CASE n = "kNone" -> 0
       [] n = "kReference" -> 1
       [] n = "kStandardCpp" -> 2
       [] n \in {"kNeon", "kSse42"} -> 4
       [] n \in {"kNeonDotprod", "kAvx2"} -> 8
       [] n = "kAvx512" -> 16
       [] n = "kAvxVnni" -> 32]

\* A table whose non-Linux NEON branch was copied from the Linux one.
AllPathsNames_dotprod_everywhere(pf) ==
  IF pf["NEON_64"] \/ (~pf["linux"] /\ pf["NEON"])
    THEN {"kReference", "kStandardCpp", "kNeon", "kNeonDotprod"}
  ELSE IF pf["linux"] /\ pf["NEON_32"]
    THEN {"kReference", "kStandardCpp", "kNeon"}
  ELSE IF pf["X86"]
    THEN {"kReference", "kStandardCpp", "kSse42", "kAvx2", "kAvx512",
          "kAvxVnni"}
  ELSE {"kReference", "kStandardCpp"}

\* lines 137-161: the enumerators that are OR-ed into kAllPaths
AllPathsNames(pf) ==
  IF pf["linux"]
  THEN IF pf["NEON_64"]
         THEN {"kReference", "kStandardCpp", "kNeon", "kNeonDotprod"}
       ELSE IF pf["NEON_32"]
         THEN {"kReference", "kStandardCpp", "kNeon"}
       ELSE IF pf["X86"]
         THEN {"kReference", "kStandardCpp", "kSse42", "kAvx2", "kAvx512",
               "kAvxVnni"}
       ELSE {"kReference", "kStandardCpp"}
  ELSE IF pf["NEON"]
         THEN {"kReference", "kStandardCpp", "kNeon"}
       ELSE IF pf["X86"]
         THEN {"kReference", "kStandardCpp", "kSse42", "kAvx2", "kAvx512",
               "kAvxVnni"}
       ELSE {"kReference", "kStandardCpp"}

\* The header compiles: kAllPaths names only enumerators that exist.
Compiles(pf) == AllPathsNames(pf) \subseteq DOMAIN PathEnum(pf)

\* operator| over the values of a set of enumerators
RECURSIVE OrOfNames(_, _)
OrOfNames(pf, names) ==
  IF names = {} THEN kNone
  ELSE LET n == CHOOSE x \in names : TRUE
       IN operator_or(PathEnum(pf)[n], OrOfNames(pf, names \ {n}))

\* lines 137-161: constexpr Path kAllPaths
kAllPaths(pf) == OrOfNames(pf, AllPathsNames(pf))

\* The builds: every truth assignment to the macros that compiles.
Platforms == {pf \in [PlatformMacros -> BOOLEAN] : Compiles(pf)}

LinuxX86 == [m \in PlatformMacros |-> m \in {"linux", "X86"}]

\* kAllPaths is evaluated.
EvalAllPaths ==
  /\ path_op = "none"
  /\ path_op' = "kAllPaths"
  /\ path_mask' = kAllPaths(platform)
  /\ path_result' = <<>>
  /\ UNCHANGED <<providerVars, workloadVars, provider_queries, path_q, platform, init_status_,
                 cache_sizes_, alive, frame, calls_left, initialize_calls,
                 deinitialize_calls, status_stores, dcheck_failed, first_ret,
                 last_ret>>

\* The Path to run is picked from kAllPaths.
ResolveAllPaths ==
  /\ path_op = "kAllPaths"
  /\ path_op' = "GetMostSignificantPath"
  /\ path_result' = <<GetMostSignificantPath(path_mask)>>
  /\ UNCHANGED <<providerVars, workloadVars, provider_queries, path_mask, path_q, platform,
                 init_status_, cache_sizes_, alive, frame, calls_left,
                 initialize_calls, deinitialize_calls, status_stores,
                 dcheck_failed, first_ret, last_ret>>

NextAllPaths ==
  \/ EvalAllPaths
  \/ ResolveAllPaths

\* ------------------------------------------------------ provider answers
CacheSizeValues == {128 * KiB, 256 * KiB}

\* cpuinfo describes a core as a range of processors (cpuinfo_core has a
\* processor_start and a processor_count): the processors of one core are
\* neighbours, and a processor is on its predecessor's core or on the next.
CoreMaps(P) ==
  {c \in [0..(P - 1) -> 0..(P - 1)] :
     /\ c[0] = 0
     /\ \A i \in 1..(P - 1) : c[i] \in {c[i - 1], c[i - 1] + 1}}

\* One cache level of a P-processor system: absent, one cache per
\* processor, or one cache shared by all processors.
LevelLayouts(P) ==
  {[i \in 0..(P - 1) |-> NullCache]}
  \cup {[i \in 0..(P - 1) |-> cpuinfo_cache(sz[i], i, 1)] :
          sz \in [0..(P - 1) -> CacheSizeValues]}
  \cup {[i \in 0..(P - 1) |-> cpuinfo_cache(sz, 0, P)] : sz \in CacheSizeValues}

HasCache(processor) ==
  \E k \in 1..3 : CacheLevels(processor)[k] # NullCache

TopologiesOf(P) ==
  {tp \in {[i \in 0..(P - 1) |->
              [core |-> c[i], l1d |-> a[i], l2 |-> b[i], l3 |-> d[i]]] :
             c \in CoreMaps(P), a \in LevelLayouts(P),
             b \in LevelLayouts(P), d \in LevelLayouts(P)} :
     \A i \in 0..(P - 1) : HasCache(tp[i])}

\* Two single-thread cores: private L1 = 32 KiB, private L2 = 256 KiB,
\* shared L3 = 2 MiB.
TwoCoreSharedL3 ==
  [i \in 0..1 |->
     [core |-> i, l1d |-> cpuinfo_cache(32 * KiB, i, 1),
      l2 |-> cpuinfo_cache(256 * KiB, i, 1),
      l3 |-> cpuinfo_cache(2048 * KiB, 0, 2)]]

\* Two cores under one shared L3, the second one without an L2.
MissingL2 ==
  [i \in 0..1 |->
     [core |-> i, l1d |-> cpuinfo_cache(32 * KiB, i, 1),
      l2 |-> IF i = 0 THEN cpuinfo_cache(128 * KiB, 0, 1) ELSE NullCache,
      l3 |-> cpuinfo_cache(2048 * KiB, 0, 2)]]

SampleTopologies == {TwoCoreSharedL3, MissingL2}

\* Two cores of two hardware threads each: the L1 (32 KiB) and L2 (256 KiB)
\* of a core are shared by its two processors, the L3 (2 MiB) by all four.
TwoCoresTwoThreads ==
  [i \in 0..3 |->
     [core |-> i \div 2,
      l1d |-> cpuinfo_cache(32 * KiB, 2 * (i \div 2), 2),
      l2 |-> cpuinfo_cache(256 * KiB, 2 * (i \div 2), 2),
      l3 |-> cpuinfo_cache(2048 * KiB, 0, 4)]]

Topologies ==
  UNION {TopologiesOf(P) : P \in 1..MaxProcs}
    \cup SampleTopologies \cup {TwoCoresTwoThreads}

AllFeatures == [FeatureNames -> BOOLEAN]

NoFeatures == [n \in FeatureNames |-> FALSE]

EveryFeature == [n \in FeatureNames |-> TRUE]

\* ------------------------------------------------------------ the states
\* A freshly constructed CpuInfo: init_status_ = kNotYetAttempted and a
\* default-constructed cache_sizes_; nobody has called it yet.
InitCpuInfo ==
  /\ init_status_ = "kNotYetAttempted"
  /\ cache_sizes_ = DefaultCacheSizes
  /\ alive = TRUE
  /\ frame = [t \in Threads |-> IdleFrame]
  /\ initialize_calls = 0
  /\ deinitialize_calls = 0
  /\ status_stores = 0
  /\ provider_queries = {}
  /\ dcheck_failed = {}
  /\ first_ret = [o \in Ops |-> <<>>]
  /\ last_ret = [o \in Ops |-> <<>>]

NoPathCall ==
  /\ path_mask = kNone
  /\ path_q = kNone
  /\ path_op = "none"
  /\ path_result = <<>>
  /\ platform = LinuxX86

\* One caller, any of the seven methods, up to MaxCalls calls.
Init ==
  /\ InitCpuInfo /\ NoPathCall
  /\ have_cpuinfo \in BOOLEAN
  /\ cpuinfo_ok \in BOOLEAN
  /\ processors \in SampleTopologies
  /\ features \in {NoFeatures, EveryFeature}
  /\ callers = {1}
  /\ ops = Ops
  /\ calls_left = MaxCalls

Spec == Init /\ [][Next]_vars

\* One caller asking once for the cache sizes, on every topology.
InitTopology ==
  /\ InitCpuInfo /\ NoPathCall
  /\ \/ have_cpuinfo = TRUE /\ processors \in Topologies
     \/ have_cpuinfo = FALSE /\ processors = TwoCoreSharedL3
  /\ cpuinfo_ok = TRUE
  /\ features = NoFeatures
  /\ callers = {1}
  /\ ops = {"GetCacheSizes"}
  /\ calls_left = 1

SpecTopology == InitTopology /\ [][Next]_vars

\* One caller making one call, on every combination of feature flags.
InitFeatures ==
  /\ InitCpuInfo /\ NoPathCall
  /\ have_cpuinfo \in BOOLEAN
  /\ cpuinfo_ok \in BOOLEAN
  /\ processors = TwoCoreSharedL3
  /\ features \in AllFeatures
  /\ callers = {1}
  /\ ops = Ops
  /\ calls_left = 1

SpecFeatures == InitFeatures /\ [][Next]_vars

\* Several threads calling into one instance, one call each on average.
InitThreads ==
  /\ InitCpuInfo /\ NoPathCall
  /\ have_cpuinfo \in BOOLEAN
  /\ cpuinfo_ok \in BOOLEAN
  /\ processors = TwoCoreSharedL3
  /\ features = EveryFeature
  /\ callers = Threads
  /\ ops = {"EnsureInitialized", "GetCacheSizes", "Avx512"}
  /\ calls_left = MaxThreads

SpecThreads == InitThreads /\ [][Next]_vars

\* GetMostSignificantPath on every value of the 8-bit Path.
InitPath ==
  /\ InitCpuInfo
  /\ have_cpuinfo = TRUE
  /\ cpuinfo_ok = TRUE
  /\ processors = TwoCoreSharedL3
  /\ features = NoFeatures
  /\ callers = {}
  /\ ops = {}
  /\ calls_left = 0
  /\ path_mask \in PathValues
  /\ path_q = kNone
  /\ path_op = "none"
  /\ path_result = <<>>
  /\ platform = LinuxX86

SpecPath == InitPath /\ [][NextPath]_vars

\* The Path operators on every pair of values of the 8-bit Path.
InitPathOperators ==
  /\ InitCpuInfo
  /\ have_cpuinfo = TRUE
  /\ cpuinfo_ok = TRUE
  /\ processors = TwoCoreSharedL3
  /\ features = NoFeatures
  /\ callers = {}
  /\ ops = {}
  /\ calls_left = 0
  /\ path_mask \in PathValues
  /\ path_q \in PathValues
  /\ path_op = "none"
  /\ path_result = <<>>
  /\ platform = LinuxX86

SpecPathOperators == InitPathOperators /\ [][NextPathOperators]_vars

\* kAllPaths in every build.
InitAllPaths ==
  /\ InitCpuInfo
  /\ have_cpuinfo = TRUE
  /\ cpuinfo_ok = TRUE
  /\ processors = TwoCoreSharedL3
  /\ features = NoFeatures
  /\ callers = {}
  /\ ops = {}
  /\ calls_left = 0
  /\ path_mask = kNone
  /\ path_q = kNone
  /\ path_op = "none"
  /\ path_result = <<>>
  /\ platform \in Platforms

SpecAllPaths == InitAllPaths /\ [][NextAllPaths]_vars

\* ---------------------------------------------------------------- claims
Returned(o) == last_ret[o] # <<>>

DummyCacheSizes == CpuCacheSizes(32 * 1024, 512 * 1024)

\* What a call of o gives back when the oracle has nothing to report.
IsFallbackAnswer(o, res) ==
  /\ o = "GetCacheSizes" => res.sizes = DummyCacheSizes
  /\ o # "GetCacheSizes" => res.b = FALSE

\* C1: in the build without cpuinfo, and whenever cpuinfo_initialize()
\* fails, every call of GetCacheSizes that has returned gave local = 32 KiB
\* and last_level = 512 KiB, and every feature query that has returned gave
\* false.
C1_FallbackAnswers ==
  (~have_cpuinfo \/ ~cpuinfo_ok) =>
    /\ \A o \in FeatureOps \cup {"GetCacheSizes"} :
         /\ Returned(o) => IsFallbackAnswer(o, last_ret[o][1])
         /\ first_ret[o] # <<>> => IsFallbackAnswer(o, first_ret[o][1])
    /\ \A t \in callers :
         (frame[t].pc = "done" /\ frame[t].op # "EnsureInitialized") =>
           IsFallbackAnswer(frame[t].op, frame[t].result)

\* cpuinfo_initialize() failed on a CPU that has every feature, and
\* GetCacheSizes and two feature queries have returned since.
C1_Witness ==
  /\ have_cpuinfo /\ ~cpuinfo_ok /\ features = EveryFeature
  /\ initialize_calls = 1
  /\ Returned("GetCacheSizes") /\ Returned("Avx512") /\ Returned("Sse42")

\* C2: with one caller, cpuinfo_initialize() is invoked at most once; once
\* it has failed, every later call gives false or the dummy sizes and
\* initializes nothing.
C2_InitializeAtMostOnce ==
  /\ initialize_calls <= 1
  /\ init_status_ = "kFailed" =>
       /\ initialize_calls = 1
       /\ \A t \in callers : frame[t].pc \notin {"initialize", "loop",
                                                  "store"}
       /\ \A t \in callers : frame[t].pc = "done" =>
            /\ frame[t].result.b = FALSE
            /\ frame[t].op = "GetCacheSizes" =>
                 frame[t].result.sizes = DummyCacheSizes

\* The first call failed to initialize and every later call has returned.
C2_Witness ==
  /\ init_status_ = "kFailed" /\ initialize_calls = 1
  /\ calls_left = 0 /\ Quiescent

\* C4: with one caller and fixed provider answers, the latest call of each
\* operation gave the same result as that operation's first call.
C4_Idempotent ==
  /\ \A o \in Ops : last_ret[o] = first_ret[o]
  /\ \A t \in callers : frame[t].pc = "done" =>
       first_ret[frame[t].op] = <<frame[t].result>>

\* After a successful initialization, three calls have returned, two of
\* them of the same operation, with EnsureInitialized and GetCacheSizes
\* both among them.
C4_Witness ==
  /\ have_cpuinfo /\ cpuinfo_ok /\ calls_left = 0 /\ Quiescent
  /\ Returned("EnsureInitialized") /\ Returned("GetCacheSizes")
  /\ Cardinality({o \in Ops : Returned(o)}) = 2
  /\ first_ret["EnsureInitialized"][1].b = TRUE

\* C3: when several threads call into one instance whose status is
\* kNotYetAttempted, cpuinfo_initialize() is invoked at most once and
\* init_status_ is moved out of kNotYetAttempted at most once.
C3_InitializeAtMostOnceUnderRace ==
  /\ initialize_calls <= 1
  /\ status_stores <= 1

\* The cache levels (1 = L1d, 2 = L2, 3 = L3) processor i has, and those of
\* them that the walk classifies local.
LevelsOf(i) == CacheLevels(processors[i])

PresentLevels(i) == {k \in 1..3 : LevelsOf(i)[k] # NullCache}

LocalLevels(i) == {k \in PresentLevels(i) : is_local(LevelsOf(i)[k])}

Outermost(levels) == CHOOSE k \in levels : \A j \in levels : j <= k

\* Frames that have just finished the loop body for processor frame.i - 1.
Walked(t) ==
  /\ t \in callers /\ frame[t].pc = "loop" /\ frame[t].i > 0

\* No present cache of processor i is smaller than a present cache of an
\* inner level of processor i.
SizesGrowOutward(i) ==
  \A j, k \in PresentLevels(i) :
    j < k => LevelsOf(i)[j].size <= LevelsOf(i)[k].size

SizeChecks == {"local_gt_0", "last_level_gt_0", "last_level_ge_local"}

AggregateIsConsistent ==
  /\ cache_sizes_.local > 0
  /\ cache_sizes_.last_level > 0
  /\ cache_sizes_.last_level >= cache_sizes_.local
  /\ dcheck_failed \cap SizeChecks = {}

OutermostSize(i) == LevelsOf(i)[Outermost(PresentLevels(i))].size

OutermostLocalSize(i) == LevelsOf(i)[Outermost(LocalLevels(i))].size

LocalSizeOf(i) ==
  IF LocalLevels(i) = {} THEN OutermostSize(i) ELSE OutermostLocalSize(i)

\* C6: after a successful initialization, local is the minimum over the
\* processors of the per-processor local size and last_level the minimum of
\* the per-processor last-level size; GetCacheSizes returns that pair.
C6_MinimumOverProcessors ==
  init_status_ = "kInitialized" =>
    /\ \A i \in DOMAIN processors :
         /\ cache_sizes_.local <= LocalSizeOf(i)
         /\ cache_sizes_.last_level <= OutermostSize(i)
    /\ \E i \in DOMAIN processors : cache_sizes_.local = LocalSizeOf(i)
    /\ \E i \in DOMAIN processors : cache_sizes_.last_level = OutermostSize(i)
    /\ Returned("GetCacheSizes") => last_ret["GetCacheSizes"][1].sizes = cache_sizes_

\* Processor 0 has 256 KiB of local cache, processor 1 has 128 KiB, and
\* GetCacheSizes has returned local = 128 KiB.
C6_Witness ==
  /\ processors_count = 2
  /\ LocalSizeOf(0) = 256 * 1024 /\ LocalSizeOf(1) = 128 * 1024
  /\ Returned("GetCacheSizes")
  /\ last_ret["GetCacheSizes"][1].sizes.local = 128 * 1024

\* C7: the walk over L1d, L2, L3 skips absent levels; it leaves the size of
\* the outermost present cache as the processor's last-level size and the
\* size of the outermost local cache, when there is one, as its local size.
\* Two cores with private 32 KiB L1 and 256 KiB L2 under a shared 2 MiB L3
\* give local = 256 KiB and last_level = 2 MiB.
C7_WalkKeepsOutermost ==
  /\ \A t \in Threads : Walked(t) =>
       LET i == frame[t].i - 1 IN
         /\ frame[t].last_level_cache_size = OutermostSize(i)
         /\ LocalLevels(i) # {} =>
              frame[t].local_cache_size = OutermostLocalSize(i)
  /\ (processors = TwoCoreSharedL3 /\ init_status_ = "kInitialized") =>
       cache_sizes_ = CpuCacheSizes(256 * 1024, 2 * 1024 * 1024)

\* The walk has just passed a processor that has an L1d and an L3 but no
\* L2, the L3 being shared between cores.
C7_Witness ==
  \E t \in Threads :
    /\ Walked(t)
    /\ PresentLevels(frame[t].i - 1) = {1, 3}
    /\ LocalLevels(frame[t].i - 1) = {1}
    /\ frame[t].last_level_cache_size = LevelsOf(frame[t].i - 1)[3].size

\* C8: a processor all of whose present caches are shared between cores
\* gets its last-level size as its local size; a processor with a local
\* cache gets the size of a local cache, not the fallback.
C8_FallbackToLastLevel ==
  \A t \in Threads : Walked(t) =>
    LET i == frame[t].i - 1 IN
      /\ LocalLevels(i) = {} =>
           /\ frame[t].local_cache_size = frame[t].last_level_cache_size
           /\ frame[t].local_cache_size > 0
      /\ LocalLevels(i) # {} =>
           \E k \in LocalLevels(i) :
             frame[t].local_cache_size = LevelsOf(i)[k].size

\* The walk has just passed a processor with two present caches, both
\* shared with a processor of another core.
C8_Witness ==
  \E t \in Threads :
    /\ Walked(t)
    /\ LocalLevels(frame[t].i - 1) = {}
    /\ Cardinality(PresentLevels(frame[t].i - 1)) = 2
    /\ frame[t].local_cache_size = OutermostSize(frame[t].i - 1)

Avx512SubFeatures == {"avx512f", "avx512dq", "avx512cd", "avx512bw", "avx512vl"}

\* C9: after a successful initialization Avx512() returns true exactly when
\* the provider reports all of AVX512F, DQ, CD, BW and VL.
C9_Avx512Conjunction ==
  \A t \in callers :
    (/\ frame[t].pc = "done" /\ frame[t].op = "Avx512"
     /\ init_status_ = "kInitialized")
    => (frame[t].result.b <=> \A n \in Avx512SubFeatures : features[n])

\* Initialized on a CPU that has every feature but AVX512VL, and Avx512()
\* has returned false.
C9_Witness ==
  /\ init_status_ = "kInitialized"
  /\ \A n \in FeatureNames : features[n] <=> n # "avx512vl"
  /\ Returned("Avx512") /\ last_ret["Avx512"][1].b = FALSE

SingleBits == {2 ^ k : k \in 0..(PathWidth - 1)}

\* Path b, a single bit, is in the set s.
HasPath(s, b) == (s \div b) % 2 = 1

\* C10: for a non-empty set of Paths, GetMostSignificantPath returns a
\* single bit that is in the set and is not exceeded by any bit of the set;
\* for the union of two single Paths it returns the larger of the two.
C10_MostSignificantPath ==
  (path_result # <<>> /\ path_mask # kNone) =>
    LET r == path_result[1] IN
      /\ r \in SingleBits
      /\ HasPath(path_mask, r)
      /\ \A b \in SingleBits : HasPath(path_mask, b) => b <= r
      /\ \A a, b \in SingleBits :
           (a < b /\ path_mask = a + b) => r = b

\* GetMostSignificantPath has returned 0x20 for the set {0x8, 0x20}.
C10_Witness ==
  /\ path_mask = 8 + 32
  /\ path_result = <<32>>

\* C11: on every pair of 8-bit Path sets the operators |, &, ^ and ~ return
\* 8-bit values that are the union, the intersection, the symmetric
\* difference and the complement of their operands, and (A | B) & ~A equals
\* B & ~A while A & ~A is kNone.
C11_SetAlgebra ==
  /\ \A k \in 1..Len(path_result) : path_result[k] \in 0..255
  /\ \A b \in SingleBits :
       /\ path_op = "operator|" =>
            (HasPath(path_result[1], b) <=>
               (HasPath(path_mask, b) \/ HasPath(path_q, b)))
       /\ path_op = "operator&" =>
            (HasPath(path_result[1], b) <=>
               (HasPath(path_mask, b) /\ HasPath(path_q, b)))
       /\ path_op = "operator^" =>
            (HasPath(path_result[1], b) <=>
               (HasPath(path_mask, b) # HasPath(path_q, b)))
       /\ path_op = "operator~" =>
            (HasPath(path_result[1], b) <=> ~HasPath(path_mask, b))
  /\ path_op = "difference" =>
       /\ path_result[1] = path_result[2]
       /\ path_result[3] = kNone

\* The law has been evaluated for A = {0x2, 0x8} and B = {0x8, 0x10}: both
\* sides are {0x10}.
C11_Witness ==
  /\ path_mask = 2 + 8 /\ path_q = 8 + 16
  /\ path_op = "difference"
  /\ path_result = <<16, 16, 0>>

\* Calls of cpuinfo_initialize() that returned true.
SuccessfulInitializeCalls == IF cpuinfo_ok THEN initialize_calls ELSE 0

\* C12: cpuinfo_deinitialize() is called by the destructor only, once if
\* the status is kInitialized and not at all if it is kNotYetAttempted or
\* kFailed; with one caller a destroyed instance has deinitialized as many
\* times as it has successfully initialized.
C12_DeinitializeIffInitialized ==
  /\ alive => deinitialize_calls = 0
  /\ ~alive =>
       /\ deinitialize_calls = (IF init_status_ = "kInitialized" THEN 1 ELSE 0)
       /\ deinitialize_calls = SuccessfulInitializeCalls

\* An instance that initialized successfully has been destroyed.
C12_Witness ==
  /\ ~alive /\ init_status_ = "kInitialized"
  /\ initialize_calls = 1 /\ deinitialize_calls = 1

\* The pair a finished aggregation leaves in cache_sizes_.
FinalAggregate ==
  CpuCacheSizes(
    CHOOSE m \in {LocalSizeOf(i) : i \in DOMAIN processors} :
      \A i \in DOMAIN processors : m <= LocalSizeOf(i),
    CHOOSE m \in {OutermostSize(i) : i \in DOMAIN processors} :
      \A i \in DOMAIN processors : m <= OutermostSize(i))

\* C13: whatever the interleaving of the calling threads, a call of
\* GetCacheSizes that has returned gave either the dummy pair or the
\* complete final aggregate.
C13_NoTornCacheSizes ==
  /\ \A t \in callers :
       (frame[t].pc = "done" /\ frame[t].op = "GetCacheSizes") =>
         frame[t].result.sizes \in {DummyCacheSizes, FinalAggregate}
  /\ Returned("GetCacheSizes") =>
       last_ret["GetCacheSizes"][1].sizes \in {DummyCacheSizes, FinalAggregate}

\* A status that has left kNotYetAttempted keeps its value in every step.
StatusIsFinal ==
  init_status_ # "kNotYetAttempted" => init_status_' = init_status_

\* Some call has returned.
SomeCallReturned == \E t \in callers : frame[t].pc = "done"

\* C14 as stated: the status starts as kNotYetAttempted, is kInitialized or
\* kFailed once any call has returned, and never changes after it has left
\* kNotYetAttempted.
C14_StatusMonotone ==
  /\ init_status_ = "kNotYetAttempted"
  /\ [](SomeCallReturned => init_status_ \in {"kInitialized", "kFailed"})
  /\ [][StatusIsFinal]_vars

\* C14 as amended: the same in the build with cpuinfo; in the build without
\* it the status stays kNotYetAttempted.
C14_StatusMonotoneWithCpuinfo ==
  /\ init_status_ = "kNotYetAttempted"
  /\ [](IF have_cpuinfo
        THEN SomeCallReturned => init_status_ \in {"kInitialized", "kFailed"}
        ELSE init_status_ = "kNotYetAttempted")
  /\ [][StatusIsFinal]_vars

\* The first call initialized successfully, the status was stored once and
\* every later call has returned.
C14_Witness ==
  /\ have_cpuinfo /\ init_status_ = "kInitialized" /\ status_stores = 1
  /\ calls_left = 0 /\ Quiescent /\ alive

\* The processors that share a cache instance.
SharedBy(cache) ==
  cache.processor_start..(cache.processor_start + cache.processor_count - 1)

\* Every processor sharing the cache is on the core of processor i.
OnCoreOf(i, cache) ==
  \A j \in SharedBy(cache) : processors[j].core = processors[i].core

\* C15: in the walk for processor i a present cache is classified local
\* exactly when every processor that shares it is on the physical core of
\* processor i; the local size the walk leaves is that of the outermost
\* such cache.
C15_LocalMeansSameCore ==
  \A t \in Threads : Walked(t) =>
    LET i == frame[t].i - 1
        same == {k \in PresentLevels(i) : OnCoreOf(i, LevelsOf(i)[k])}
    IN /\ \A k \in PresentLevels(i) :
            is_local(LevelsOf(i)[k]) <=> k \in same
       /\ same # {} =>
            frame[t].local_cache_size = LevelsOf(i)[Outermost(same)].size
       /\ same = {} =>
            frame[t].local_cache_size = frame[t].last_level_cache_size

\* The walk has passed a processor whose L2 is shared with the other
\* hardware thread of its core and whose L3 is shared with another core.
C15_Witness ==
  \E t \in Threads :
    /\ Walked(t)
    /\ LET i == frame[t].i - 1 IN
         /\ PresentLevels(i) = {1, 2, 3}
         /\ LevelsOf(i)[2].processor_count = 2
         /\ OnCoreOf(i, LevelsOf(i)[2])
         /\ ~OnCoreOf(i, LevelsOf(i)[3])
         /\ frame[t].local_cache_size = LevelsOf(i)[2].size

\* C16: GetMostSignificantPath applied to the empty set Path::kNone returns
\* Path::kNone.
C16_NoneForNone ==
  (path_op = "GetMostSignificantPath" /\ path_mask = kNone) =>
    path_result = <<kNone>>

\* GetMostSignificantPath has been applied to Path::kNone and has returned.
C16_Witness ==
  /\ path_op = "GetMostSignificantPath"
  /\ path_mask = 0
  /\ Len(path_result) = 1 /\ path_result[1] = 0

\* Frames that are copying cache_sizes_ to the caller (line 114).
Copying(t) == frame[t].pc \in {"copy_local", "copy_last_level"}

\* C17: with one caller the default (0, 0) of cache_sizes_ is never given
\* to a caller: without a successful initialization the member stays
\* (0, 0) and GetCacheSizes gives the dummy pair; the member is copied out
\* only when the status is kInitialized and both fields have been assigned.
C17_DefaultNeverReturned ==
  /\ (~have_cpuinfo \/ ~cpuinfo_ok) => cache_sizes_ = DefaultCacheSizes
  /\ init_status_ = "kFailed" => cache_sizes_ = DefaultCacheSizes
  /\ \A t \in callers : Copying(t) =>
       /\ init_status_ = "kInitialized"
       /\ cache_sizes_.local > 0 /\ cache_sizes_.last_level > 0
       /\ \A u \in callers : frame[u].pending = {}
  /\ \A t \in callers :
       (frame[t].pc = "done" /\ frame[t].op = "GetCacheSizes") =>
         /\ frame[t].result.sizes.local > 0
         /\ frame[t].result.sizes.last_level > 0
         /\ init_status_ # "kInitialized" =>
              frame[t].result.sizes = DummyCacheSizes
         /\ init_status_ = "kInitialized" =>
              frame[t].result.sizes = cache_sizes_

\* Initialization has failed, cache_sizes_ is still (0, 0) and a later
\* GetCacheSizes has given the dummy pair.
C17_Witness ==
  /\ init_status_ = "kFailed" /\ cache_sizes_ = CpuCacheSizes(0, 0)
  /\ Returned("EnsureInitialized")
  /\ \E t \in callers :
       /\ frame[t].pc = "done" /\ frame[t].op = "GetCacheSizes"
       /\ frame[t].result.sizes = DummyCacheSizes

AllPathsEvaluated == path_op \in {"kAllPaths", "GetMostSignificantPath"}

\* C18: in every build kAllPaths is not kNone, contains kReference and
\* kStandardCpp, contains only bits that are enumerators of that build's
\* Path, and contains kNeonDotprod only on Linux with 64-bit NEON.
C18_AllPathsTable ==
  AllPathsEvaluated =>
    /\ path_mask # kNone
    /\ HasPath(path_mask, kReference) /\ HasPath(path_mask, kStandardCpp)
    /\ \A b \in SingleBits :
         HasPath(path_mask, b) =>
           \E n \in DOMAIN PathEnum(platform) : PathEnum(platform)[n] = b
    /\ (platform["ARM"] /\ ~platform["X86"] /\ HasPath(path_mask, 8)) =>
         (platform["linux"] /\ platform["NEON_64"])
    /\ "kNeonDotprod" \in AllPathsNames(platform) =>
         (platform["linux"] /\ platform["NEON_64"])

\* 64-bit ARM with NEON outside Linux: kAllPaths is kReference |
\* kStandardCpp | kNeon.
C18_Witness ==
  /\ path_op = "kAllPaths"
  /\ platform = [m \in PlatformMacros |-> m \in {"ARM", "NEON", "NEON_64"}]
  /\ path_mask = 1 + 2 + 4

ProviderQueries == {"processors_count", "processor"} \cup FeatureNames

\* C19: cpuinfo_get_processors_count(), cpuinfo_get_processor(i) and the
\* cpuinfo_has_*() functions are called only once a cpuinfo_initialize()
\* call on the instance has returned true; after a failed
\* cpuinfo_initialize() none of them is called and every feature query
\* returns false.
C19_QueriesOnlyAfterInitialize ==
  /\ provider_queries \subseteq ProviderQueries
  /\ provider_queries # {} => SuccessfulInitializeCalls > 0
  /\ (initialize_calls > 0 /\ ~cpuinfo_ok) =>
       /\ provider_queries = {}
       /\ \A o \in FeatureOps : Returned(o) => ~last_ret[o][1].b

\* cpuinfo_initialize() failed, and Avx2() has returned false since without
\* calling cpuinfo_has_x86_avx2(), which would have answered true.
C19_Witness ==
  /\ have_cpuinfo /\ ~cpuinfo_ok /\ initialize_calls = 1
  /\ init_status_ = "kFailed"
  /\ features["avx2"]
  /\ Returned("Avx2") /\ ~last_ret["Avx2"][1].b
  /\ provider_queries = {}

\* cpuinfo_initialize() succeeded and the three kinds of function have been
\* called.
C19_QueriedAfterInitialize ==
  /\ SuccessfulInitializeCalls = 1
  /\ {"processors_count", "processor", "avx2"} \subseteq provider_queries
====
